---------------------------- MODULE Spec2Model ----------------------------
(***************************************************************************)
(* Model of the Rhino AI front-end: src/assistant.py (the structured       *)
(* extractor _parse_json and the code-fence extraction of                  *)
(* fix_code_with_feedback) and src/main.py (the Streamlit script, one run  *)
(* per user interaction, with its session state and its file saves).       *)
(*                                                                         *)
(* A text is a sequence of one-character strings.                          *)
(***************************************************************************)
EXTENDS Integers, Sequences, FiniteSets, TLC

VARIABLES
    raw,        \* SpecParse: the text handed to _parse_json
    parsed,     \* SpecParse: what _parse_json did with it
    pdone,      \* SpecParse: whether _parse_json has been applied
    response,   \* SpecFence: the completion text of fix_code_with_feedback
    extracted,  \* SpecFence: the text fix_code_with_feedback returns
    fdone,      \* SpecFence: whether the extraction has been applied
    api_key,                \* what os.getenv("OPENAI_API_KEY") returns
    model_parameters,       \* st.session_state.model_parameters
    modeling_instructions,  \* st.session_state.modeling_instructions
    rhino_python_script,    \* st.session_state.rhino_python_script
    files,      \* ~/Desktop/RhinoScripts: the set of [name, content]
    clock,      \* local time, in seconds since midnight of day 0
    run         \* the last run of the script: its trigger and what it did

pvars == <<raw, parsed, pdone>>
fvars == <<response, extracted, fdone>>
svars == <<model_parameters, modeling_instructions, rhino_python_script>>
uvars == <<api_key, svars, files, clock, run>>
vars == <<pvars, fvars, uvars>>

----------------------------------------------------------------------------
(* Bounds of the model                                                     *)

\* the longest _parse_json input, in chunks of JChunks
MaxChunks == 4
\* the longest fix response, in chunks of FChunks
MaxFenceChunks == 5
\* how many seconds past a half day the clock may get
MaxSecs == 1
\* how many half days (twelve hours) the clock may get past its start
MaxHalfDays == 1

----------------------------------------------------------------------------
(* Texts                                                                   *)

Q == "\""

RECURSIVE Concat(_)
Concat(ss) == IF ss = <<>> THEN <<>> ELSE Head(ss) \o Concat(Tail(ss))

\* s[i..j], empty when j < i
Slice(s, i, j) == SubSeq(s, i, j)

RECURSIVE TextsOver(_, _)
\* all concatenations of at most n chunks
TextsOver(chunks, n) ==
    IF n = 0 THEN {<<>>}
    ELSE LET prev == TextsOver(chunks, n - 1)
         IN  prev \cup {t \o c : t \in prev, c \in chunks}

----------------------------------------------------------------------------
(* json.loads, as the standard decoder scans a str                         *)
(* A decoded value is [t, s, m]: t its kind, s its lexeme (number, string, *)
(* literal), m its members in insertion order, each [k, v] (k is <<>> for  *)
(* the elements of an array).                                              *)

JsonWs == {" ", "\t", "\n", "\r"}
Digits == {"0", "1", "2", "3", "4", "5", "6", "7", "8", "9"}
\* characters a strict JSON string may not hold unescaped
Control == {"\t", "\n", "\r"}

Nul == [t |-> "none", s |-> <<>>, m |-> <<>>]
EmptyObj == [t |-> "obj", s |-> <<>>, m |-> <<>>]
Fail == [ok |-> FALSE, val |-> Nul, end |-> 0]
Got(v, e) == [ok |-> TRUE, val |-> v, end |-> e]

At(s, i) == IF i >= 1 /\ i <= Len(s) THEN s[i] ELSE "<eof>"

RECURSIVE SkipWs(_, _)
SkipWs(s, i) == IF At(s, i) \in JsonWs THEN SkipWs(s, i + 1) ELSE i

RECURSIVE DigitsEnd(_, _)
\* the index after the run of digits starting at i
DigitsEnd(s, i) == IF At(s, i) \in Digits THEN DigitsEnd(s, i + 1) ELSE i

\* NUMBER_RE's integer part: -?(0|[1-9][0-9]*); no text of the model holds
\* a '.', an 'e' or the letters of NaN and Infinity
ScanNumber(s, i) ==
    LET d == IF At(s, i) = "-" THEN i + 1 ELSE i
        e == IF At(s, d) = "0" THEN d + 1 ELSE DigitsEnd(s, d)
    IN  IF At(s, d) \in Digits
        THEN Got([t |-> "num", s |-> Slice(s, i, e - 1), m |-> <<>>], e)
        ELSE Fail

RECURSIVE StringEnd(_, _)
\* the index of the closing quote of the string whose body starts at i, 0 if none
\* (no text of the model holds a backslash: escapes are not decoded)
StringEnd(s, i) ==
    IF i > Len(s) \/ s[i] \in Control \/ s[i] = "\\" THEN 0
    ELSE IF s[i] = Q THEN i
    ELSE StringEnd(s, i + 1)

\* a string starting with the quote at i
ScanString(s, i) ==
    LET e == StringEnd(s, i + 1)
    IN  IF At(s, i) = Q /\ e # 0
        THEN Got([t |-> "str", s |-> Slice(s, i + 1, e - 1), m |-> <<>>], e + 1)
        ELSE Fail

ScanLiteral(s, i, word) ==
    IF Slice(s, i, i + Len(word) - 1) = word /\ i + Len(word) - 1 <= Len(s)
    THEN Got([t |-> "lit", s |-> word, m |-> <<>>], i + Len(word))
    ELSE Fail

\* dict assignment: a repeated key keeps its place and takes the new value
DictSet(m, k, v) ==
    IF \E j \in 1..Len(m) : m[j].k = k
    THEN [j \in 1..Len(m) |-> IF m[j].k = k THEN [k |-> k, v |-> v] ELSE m[j]]
    ELSE Append(m, [k |-> k, v |-> v])

RECURSIVE ScanValue(_, _)
RECURSIVE ScanMembers(_, _, _)
RECURSIVE ScanElements(_, _, _)

\* JSONObject after a '{' or a ',': i is at the quote of the next key
ScanMembers(s, i, acc) ==
    LET key == ScanString(s, i)
        c   == SkipWs(s, key.end)
        val == ScanValue(s, SkipWs(s, c + 1))
        n   == SkipWs(s, val.end)
    IN  IF ~key.ok \/ At(s, c) # ":" THEN Fail
        ELSE IF ~val.ok THEN Fail
        ELSE IF At(s, n) = "}"
             THEN Got([t |-> "obj", s |-> <<>>,
                       m |-> DictSet(acc, key.val.s, val.val)], n + 1)
        ELSE IF At(s, n) = ","
             THEN ScanMembers(s, SkipWs(s, n + 1),
                              DictSet(acc, key.val.s, val.val))
        ELSE Fail

\* JSONArray after a '[' or a ',': i is at the next element
ScanElements(s, i, acc) ==
    LET val == ScanValue(s, i)
        n   == SkipWs(s, val.end)
    IN  IF ~val.ok THEN Fail
        ELSE IF At(s, n) = "]"
             THEN Got([t |-> "arr", s |-> <<>>,
                       m |-> Append(acc, [k |-> <<>>, v |-> val.val])], n + 1)
        ELSE IF At(s, n) = ","
             THEN ScanElements(s, SkipWs(s, n + 1),
                               Append(acc, [k |-> <<>>, v |-> val.val]))
        ELSE Fail

\* scan_once: the value starting exactly at i
ScanValue(s, i) ==
    LET c == At(s, i)
    IN  IF c = Q THEN ScanString(s, i)
        ELSE IF c = "{"
             THEN LET j == SkipWs(s, i + 1)
                  IN  IF At(s, j) = "}" THEN Got(EmptyObj, j + 1)
                      ELSE ScanMembers(s, j, <<>>)
        ELSE IF c = "["
             THEN LET j == SkipWs(s, i + 1)
                  IN  IF At(s, j) = "]"
                      THEN Got([t |-> "arr", s |-> <<>>, m |-> <<>>], j + 1)
                      ELSE ScanElements(s, j, <<>>)
        ELSE IF c = "n" THEN ScanLiteral(s, i, <<"n", "u", "l", "l">>)
        ELSE IF c = "t" THEN ScanLiteral(s, i, <<"t", "r", "u", "e">>)
        ELSE IF c = "f" THEN ScanLiteral(s, i, <<"f", "a", "l", "s", "e">>)
        ELSE ScanNumber(s, i)

\* json.loads(s): one value with only whitespace around it; ok = FALSE stands
\* for json.JSONDecodeError
JsonLoads(s) ==
    LET r == ScanValue(s, SkipWs(s, 1))
    IN  IF r.ok /\ SkipWs(s, r.end) > Len(s) THEN r ELSE Fail

----------------------------------------------------------------------------
(* re.search(r"(\{[\s\S]*\})", raw): leftmost '{', then greedily to the    *)
(* last '}' of the text                                                    *)

IndexesOf(s, c) == {i \in 1..Len(s) : s[i] = c}
Min(S) == CHOOSE x \in S : \A y \in S : x <= y
Max(S) == CHOOSE x \in S : \A y \in S : x >= y

\* the pattern with a lazy quantifier, \{[\s\S]*?\}: to the first '}' instead
BraceSpanLazy(s) ==
    LET opens  == IndexesOf(s, "{")
        closes == IF opens = {} THEN {}
                  ELSE {j \in IndexesOf(s, "}") : j > Min(opens)}
    IN  IF closes = {} THEN [found |-> FALSE, span |-> <<>>]
        ELSE [found |-> TRUE, span |-> Slice(s, Min(opens), Min(closes))]

BraceSpan(s) ==
    LET opens  == IndexesOf(s, "{")
        closes == IF opens = {} THEN {}
                  ELSE {j \in IndexesOf(s, "}") : j > Min(opens)}
    IN  IF closes = {} THEN [found |-> FALSE, span |-> <<>>]
        ELSE [found |-> TRUE, span |-> Slice(s, Min(opens), Max(closes))]

\* RhinoModelingAssistant._parse_json: what it returns, or the exception that
\* leaves it
Returned(v) == [exc |-> "none", val |-> v]
Raised(e) == [exc |-> e, val |-> Nul]

\* _parse_json with the inner try/except left out
_parse_json_unguarded(text) ==
    LET whole == JsonLoads(text)
        m     == BraceSpan(text)
        inner == JsonLoads(m.span)
    IN  IF whole.ok THEN Returned(whole.val)
        ELSE IF ~m.found THEN Returned(EmptyObj)
        ELSE IF inner.ok THEN Returned(inner.val)
        ELSE Raised("JSONDecodeError")

_parse_json(text) ==
    LET whole == JsonLoads(text)
        m     == BraceSpan(text)
        inner == JsonLoads(m.span)
    IN  IF whole.ok THEN Returned(whole.val)
        ELSE IF ~m.found THEN Returned(EmptyObj)
        ELSE IF inner.ok THEN Returned(inner.val)
        ELSE Returned(EmptyObj)

\* the value of parsed before _parse_json is applied
NotRun == [exc |-> "not run", val |-> Nul]

----------------------------------------------------------------------------
(* fix_code_with_feedback: the code between python fences                  *)
(* re.search of an opening fence tagged python, a lazy group and a closing *)
(* fence, with re.DOTALL.  A string of the module cannot hold a backtick,  *)
(* so the character is written BT.                                         *)

BT == "<backtick>"
Fence == <<BT, BT, BT>>
Opening == Fence \o <<"p", "y", "t", "h", "o", "n">>

OccursAt(s, pat, i) ==
    /\ i >= 1
    /\ i + Len(pat) - 1 <= Len(s)
    /\ Slice(s, i, i + Len(pat) - 1) = pat

\* the closing fences that can end a match opened at i
ClosingsAfter(s, i) ==
    {j \in (i + Len(Opening))..Len(s) : OccursAt(s, Fence, j)}

\* the leftmost opening marker that a closing fence follows, 0 if none
MatchStart(s) ==
    LET opens == {i \in 1..Len(s) :
                    OccursAt(s, Opening, i) /\ ClosingsAfter(s, i) # {}}
    IN  IF opens = {} THEN 0 ELSE Min(opens)

\* str.strip(): leading and trailing whitespace removed
StripWs == {" ", "\t", "\n", "\r", "\f"}
RECURSIVE LStrip(_)
LStrip(s) == IF s # <<>> /\ Head(s) \in StripWs THEN LStrip(Tail(s)) ELSE s
RECURSIVE RStrip(_)
RStrip(s) ==
    IF s # <<>> /\ s[Len(s)] \in StripWs
    THEN RStrip(Slice(s, 1, Len(s) - 1)) ELSE s
Strip(s) == RStrip(LStrip(s))

\* the extraction with a greedy group, (.*): to the last closing fence
ExtractCodeGreedy(text) ==
    LET i == MatchStart(text)
    IN  IF i # 0
        THEN Strip(Slice(text, i + Len(Opening), Max(ClosingsAfter(text, i)) - 1))
        ELSE text

\* what fix_code_with_feedback returns for the completion text: group(1),
\* lazy, stripped, or the text itself when nothing matches
ExtractCode(text) ==
    LET i == MatchStart(text)
    IN  IF i # 0
        THEN Strip(Slice(text, i + Len(Opening), Min(ClosingsAfter(text, i)) - 1))
        ELSE text

----------------------------------------------------------------------------
(* src/main.py: the script, run top to bottom once per user interaction.   *)
(* A run is carried through the sections of the script as a record m: the  *)
(* session state, the files, the time, and what the run has done so far.   *)

\* os.getenv of a variable that is not set
NoKey == "<None>"
\* a session_state field that no run has initialised
Unset == [t |-> "unset", s |-> <<>>, m |-> <<>>]
UnsetText == <<"<unset>">>
\* the outcome of a remote completion call that raises
RAISES == <<"<raises>">>

\* bool(v) of a decoded JSON value
Truthy(v) ==
    IF v.t \in {"obj", "arr"} THEN v.m # <<>>
    ELSE IF v.t = "str" THEN v.s # <<>>
    ELSE IF v.t = "num" THEN \E i \in 1..Len(v.s) : v.s[i] \in Digits \ {"0"}
    ELSE v.s = <<"t", "r", "u", "e">>

\* datetime.now().strftime('%Y-%m-%d_%I-%M-%S_%p'): the date (as a day
\* count), the hour on the 12-hour clock, minute, second, AM or PM
FormattedTime(t) ==
    LET h == (t % 86400) \div 3600
    IN  << t \div 86400,
           IF h % 12 = 0 THEN 12 ELSE h % 12,
           (t % 3600) \div 60,
           t % 60,
           IF h < 12 THEN "AM" ELSE "PM" >>

Filename(t) == <<"rhino_model_", FormattedTime(t), ".py">>

\* the most recently written file, before any save
NoFile == [name |-> <<"", <<0, 0, 0, 0, "">>, "">>, content |-> <<>>]

\* open(path, "w").write(code) under the timestamped name; each write is
\* logged with whether the name was already on disk
save_code_to_file(m, code) ==
    LET filename == Filename(m.now)
    IN  [m EXCEPT
           !.files = {f \in m.files : f.name # filename}
                        \cup {[name |-> filename, content |-> code]},
           !.writes = Append(@, [name |-> filename, content |-> code,
                                 existed |-> \E f \in m.files : f.name = filename]),
           !.latest = [name |-> filename, content |-> code]]

\* self.client.chat.completions.create(...): issued, then returns or raises
Call(m, op, outcome) ==
    IF outcome = RAISES
    THEN [m EXCEPT !.calls = Append(@, op), !.out = "raised", !.exc = "APIError"]
    ELSE [m EXCEPT !.calls = Append(@, op)]

Fell(m, e) == [m EXCEPT !.out = "raised", !.exc = e]

\* the run as it starts, d0 seconds after the previous one ended
Start(trigger, d0) ==
    [ trigger |-> trigger, key |-> api_key,
      mp |-> model_parameters, mi |-> modeling_instructions,
      rs |-> rhino_python_script,
      before |-> <<model_parameters, modeling_instructions, rhino_python_script>>,
      files |-> files, now |-> clock + d0,
      latest |-> run.latest, params |-> Nul,
      constructed |-> FALSE, calls |-> <<>>, writes |-> <<>>,
      shown |-> {}, rendered |-> {}, out |-> "running", exc |-> "none" ]

\* lines 51-56 with st.stop() left out: the error is shown and the run goes on
StartupNoStop(m) ==
    IF m.key \in {NoKey, ""}
    THEN [m EXCEPT !.shown = @ \cup {"API key not found"}, !.constructed = TRUE]
    ELSE [m EXCEPT !.constructed = TRUE]

\* lines 51-56: without a credential the run shows an error and stops
Startup(m) ==
    IF m.key \in {NoKey, ""}
    THEN [m EXCEPT !.shown = @ \cup {"API key not found"}, !.out = "halted"]
    ELSE [m EXCEPT !.constructed = TRUE]

\* lines 68-73
SessionInit(m) ==
    IF m.out # "running" THEN m
    ELSE [m EXCEPT !.mp = IF @ = Unset THEN EmptyObj ELSE @,
                   !.mi = IF @ = UnsetText THEN <<>> ELSE @,
                   !.rs = IF @ = UnsetText THEN <<>> ELSE @]

\* suggest_parameters after its remote call: the stripped text, parsed
suggest_parameters(resp) == _parse_json(Strip(resp))

\* lines 97-100: params is what suggest_parameters returned
StoreParameters(m, params) ==
    IF params.exc # "none" THEN Fell(m, params.exc)
    ELSE IF Truthy(params.val)
         THEN [m EXCEPT !.params = params.val, !.mp = params.val]
    ELSE [m EXCEPT !.params = params.val,
                   !.shown = @ \cup {"Failed to extract parameters"}]

\* lines 95-100
GenerateParametersHandler(m, pr) ==
    IF m.out # "running" THEN m
    ELSE LET m1 == [m EXCEPT !.rendered = @ \cup {"generate_parameters"}]
             c  == Call(m1, "suggest_parameters", pr)
         IN  IF m.trigger # "generate_parameters" THEN m1
             ELSE IF c.out = "raised" THEN c
             ELSE StoreParameters(c, suggest_parameters(pr))

Lookup(obj, key) ==
    LET js == {j \in 1..Len(obj.m) : obj.m[j].k = key}
    IN  IF js = {} THEN Nul ELSE obj.m[Min(js)].v

\* float(v) of a decoded value: the exception it raises, or "none"
FloatExc(v) ==
    IF v.t = "num" THEN "none"
    ELSE IF v.t = "str"
         THEN IF v.s # <<>> /\ \A i \in 1..Len(v.s) : v.s[i] \in Digits
              THEN "none" ELSE "ValueError"
    ELSE IF v.t = "lit" /\ v.s # <<"n", "u", "l", "l">> THEN "none"
    ELSE "TypeError"

SliderKeys == << <<"m", "i", "n">>, <<"m", "a", "x">>,
                 <<"d", "e", "f", "a", "u", "l", "t">>, <<"s", "t", "e", "p">> >>

RECURSIVE KeysExc(_, _)
\* float(specs["min"]), float(specs["max"]), ... in the order of the call
KeysExc(specs, i) ==
    IF i > Len(SliderKeys) THEN "none"
    ELSE IF Lookup(specs, SliderKeys[i]) = Nul THEN "KeyError"
    ELSE IF FloatExc(Lookup(specs, SliderKeys[i])) # "none"
         THEN FloatExc(Lookup(specs, SliderKeys[i]))
    ELSE KeysExc(specs, i + 1)

RECURSIVE SlidersExc(_, _)
\* lines 112-119: the exception the loop over model_parameters.items() raises,
\* or "none" (what st.slider itself checks of its arguments is not modelled)
SlidersExc(mp, i) ==
    IF mp.t # "obj" THEN "AttributeError"
    ELSE IF i > Len(mp.m) THEN "none"
    ELSE IF mp.m[i].v.t # "obj" THEN "TypeError"
    ELSE IF KeysExc(mp.m[i].v, 1) # "none" THEN KeysExc(mp.m[i].v, 1)
    ELSE SlidersExc(mp, i + 1)

\* lines 108-125
AdjustParameters(m, sr, cr) ==
    IF m.out # "running" \/ ~Truthy(m.mp) THEN m
    ELSE IF SlidersExc(m.mp, 1) # "none" THEN Fell(m, SlidersExc(m.mp, 1))
    ELSE LET m1 == [m EXCEPT !.rendered = @ \cup {"get_rhino_code"}]
             a  == Call(m1, "generate_steps", sr)
             b  == Call([a EXCEPT !.mi = sr], "generate_code", cr)
         IN  IF m.trigger # "get_rhino_code" THEN m1
             ELSE IF a.out = "raised" THEN a
             ELSE IF b.out = "raised" THEN b
             ELSE [b EXCEPT !.rs = cr]

\* lines 141-146
CodeDisplay(m) ==
    IF m.out # "running" \/ m.rs = <<>> THEN m
    ELSE save_code_to_file(m, m.rs)

\* lines 154-179; d1 seconds pass over the two remote calls
ImproveCodeHandler(m, revision_request, fr, ur, d1) ==
    IF m.out # "running" THEN m
    ELSE LET m1 == [m EXCEPT !.rendered = @ \cup {"improve_code"}]
             original_code == m.rs
             a == Call(m1, "fix_code_with_feedback", fr)
             corrected == ExtractCode(fr)
             b == Call([a EXCEPT !.rs = corrected], "summarize_code_changes", ur)
         IN  IF m.trigger # "improve_code" \/ revision_request = <<>> THEN m1
             ELSE IF a.out = "raised" THEN a
             ELSE IF b.out = "raised" THEN b
             ELSE save_code_to_file([b EXCEPT !.now = @ + d1], corrected)

\* the script has reached its last line
End(m) == IF m.out = "running" THEN [m EXCEPT !.out = "ok"] ELSE m

\* one run of main.py
Script(trigger, revision_request, pr, sr, cr, fr, ur, d0, d1) ==
    End(ImproveCodeHandler(
          CodeDisplay(
            AdjustParameters(
              GenerateParametersHandler(
                SessionInit(Startup(Start(trigger, d0))), pr),
              sr, cr)),
          revision_request, fr, ur, d1))

----------------------------------------------------------------------------
(* Spec: the session, one action per kind of run                           *)

Str(w) == <<Q>> \o w \o <<Q>>

\* completions of suggest_parameters: a good parameter set, one lacking
\* min/max/step, a JSON array, and text that is not JSON
PGood ==
    Concat(<< <<"{">>, Str(<<"h">>), <<":", "{">>,
              Str(SliderKeys[1]), <<":", "1", ",">>,
              Str(SliderKeys[2]), <<":", "9", ",">>,
              Str(SliderKeys[3]), <<":", "5", ",">>,
              Str(SliderKeys[4]), <<":", "1">>, <<"}", "}">> >>)
PBadSpec ==
    Concat(<< <<"{">>, Str(<<"h">>), <<":", "{">>,
              Str(SliderKeys[3]), <<":", "5">>, <<"}", "}">> >>)
PList == <<"[", "1", "]">>
PNotJson == <<"{", "n", "o", "t", " ", "j", "s", "o", "n">>
ParamResponses == {<<"\n">> \o PGood, PBadSpec, PList, PNotJson}

StepsResponses == {<<"S">>}
CodeResponses == {<<>>, <<"A">>}
FixResponses == {Opening \o <<"\n", "B", "\n">> \o Fence}
SummaryResponses == {<<"U">>}
Revisions == {<<>>, <<"f", "i", "x">>}

\* how long a step may take: no full second, a second, twelve hours
Delays == {0, 1, 43200}
InBounds(t) == (t % 43200) <= MaxSecs /\ (t \div 43200) <= MaxHalfDays

NoRun ==
    [ trigger |-> "none", key |-> NoKey, before |-> <<Unset, UnsetText, UnsetText>>,
      latest |-> NoFile, params |-> Nul,
      constructed |-> FALSE, calls |-> <<>>, writes |-> <<>>,
      shown |-> {}, rendered |-> {}, out |-> "none", exc |-> "none" ]

UiIdle ==
    /\ api_key = NoKey
    /\ model_parameters = Unset
    /\ modeling_instructions = UnsetText
    /\ rhino_python_script = UnsetText
    /\ files = {}
    /\ clock = 0
    /\ run = NoRun

ParseIdle == raw = <<>> /\ parsed = NotRun /\ pdone = FALSE
FenceIdle == response = <<>> /\ extracted = <<>> /\ fdone = FALSE

Init ==
    /\ api_key \in {NoKey, "", "sk-key"}
    /\ model_parameters = Unset
    /\ modeling_instructions = UnsetText
    /\ rhino_python_script = UnsetText
    /\ files = {}
    /\ clock = 0
    /\ run = NoRun
    /\ ParseIdle
    /\ FenceIdle

\* the run ends: what it left in the session, on disk and on the page
Finish(m) ==
    /\ model_parameters' = m.mp
    /\ modeling_instructions' = m.mi
    /\ rhino_python_script' = m.rs
    /\ files' = m.files
    /\ clock' = m.now
    /\ run' = [ trigger |-> m.trigger, key |-> m.key, before |-> m.before,
                latest |-> m.latest, params |-> m.params,
                constructed |-> m.constructed, calls |-> m.calls,
                writes |-> m.writes, shown |-> m.shown,
                rendered |-> m.rendered, out |-> m.out, exc |-> m.exc ]
    /\ UNCHANGED <<api_key, pvars, fvars>>

\* the page is loaded, or a widget that triggers nothing is changed
Rerun ==
    \E d0 \in Delays :
        /\ InBounds(clock + d0)
        /\ Finish(Script("rerun", <<>>, RAISES, RAISES, RAISES, RAISES, RAISES, d0, 0))

GenerateParameters ==
    /\ "generate_parameters" \in run.rendered
    /\ \E d0 \in Delays, pr \in ParamResponses \cup {RAISES} :
        /\ InBounds(clock + d0)
        /\ Finish(Script("generate_parameters", <<>>, pr,
                         RAISES, RAISES, RAISES, RAISES, d0, 0))

GetRhinoCode ==
    /\ "get_rhino_code" \in run.rendered
    /\ \E d0 \in Delays, sr \in StepsResponses \cup {RAISES},
          cr \in CodeResponses \cup {RAISES} :
        /\ InBounds(clock + d0)
        \* generate_code is not called once generate_steps has raised
        /\ sr = RAISES => cr = RAISES
        /\ Finish(Script("get_rhino_code", <<>>, RAISES, sr, cr, RAISES, RAISES, d0, 0))

ImproveCode ==
    /\ "improve_code" \in run.rendered
    /\ \E d0 \in Delays, d1 \in Delays, rq \in Revisions,
          fr \in FixResponses \cup {RAISES}, ur \in SummaryResponses \cup {RAISES} :
        /\ InBounds(clock + d0 + d1)
        \* no call is made without a request, none after one has raised, and
        \* no time passes over calls that are not made
        /\ rq = <<>> => fr = RAISES
        /\ fr = RAISES => ur = RAISES
        /\ ur = RAISES => d1 = 0
        /\ Finish(Script("improve_code", rq, RAISES, RAISES, RAISES, fr, ur, d0, d1))

\* the credential is put into .env, where load_dotenv() finds it on the next run
EditDotenv ==
    /\ api_key \in {NoKey, ""}
    /\ api_key' = "sk-key"
    /\ UNCHANGED <<svars, files, clock, run, pvars, fvars>>

Next ==
    \/ Rerun
    \/ GenerateParameters
    \/ GetRhinoCode
    \/ ImproveCode
    \/ EditDotenv

Spec == Init /\ [][Next]_vars

----------------------------------------------------------------------------
(* SpecParse: _parse_json applied to every text of at most MaxChunks       *)
(* chunks                                                                  *)

JChunks ==
    { <<"{">>, <<"}">>, <<"[">>, <<"]">>, <<":">>, <<",">>, <<Q, "k", Q>>,
      <<"1">>, <<" ">>, <<"x">>, <<"n", "u", "l", "l">>,
      <<"{", Q, "k", Q, ":", "1", "}">>,
      <<"{", Q, "k", Q, ":", "{", "}", "}">> }

InitParse ==
    /\ raw \in TextsOver(JChunks, MaxChunks)
    /\ parsed = NotRun
    /\ pdone = FALSE
    /\ FenceIdle
    /\ UiIdle

Parse ==
    /\ ~pdone
    /\ parsed' = _parse_json(raw)
    /\ pdone' = TRUE
    /\ UNCHANGED <<raw, fvars, uvars>>

SpecParse == InitParse /\ [][Parse]_vars

----------------------------------------------------------------------------
(* SpecFence: the extraction applied to every response of at most          *)
(* MaxFenceChunks chunks                                                   *)

FChunks ==
    { Opening, Fence \o <<"P", "y", "t", "h", "o", "n">>, Fence,
      <<BT>>, <<" ">>, <<"\n">>, <<"x">> }

InitFence ==
    /\ response \in TextsOver(FChunks, MaxFenceChunks)
    /\ extracted = <<>>
    /\ fdone = FALSE
    /\ ParseIdle
    /\ UiIdle

Extract ==
    /\ ~fdone
    /\ extracted' = ExtractCode(response)
    /\ fdone' = TRUE
    /\ UNCHANGED <<response, pvars, uvars>>

SpecFence == InitFence /\ [][Extract]_vars

----------------------------------------------------------------------------
(* Claims about _parse_json                                                *)

NoBrace(s) == \A i \in 1..Len(s) : s[i] \notin {"{", "}"}

\* C2: a text with neither '{' nor '}' makes _parse_json return the empty
\* mapping, also when the text is valid JSON of a non-object kind.
C2_NoBraceGivesEmpty ==
    (pdone /\ NoBrace(raw)) => parsed = Returned(EmptyObj)

\* C3: whatever the text, _parse_json returns a mapping (a parsed object or
\* the empty mapping), never a list, number, string, boolean or null.
C3_AlwaysMapping ==
    pdone => (parsed.exc = "none" /\ parsed.val.t = "obj")

\* the splits raw = P + O + S of C4: P and S hold no brace, O is the text of a
\* well-formed JSON object, and raw as a whole is not valid JSON
WrappedSplits(s) ==
    {ij \in (1..Len(s)) \X (1..Len(s)) :
        /\ ij[1] < ij[2]
        /\ s[ij[1]] = "{" /\ s[ij[2]] = "}"
        /\ NoBrace(Slice(s, 1, ij[1] - 1))
        /\ NoBrace(Slice(s, ij[2] + 1, Len(s)))
        /\ JsonLoads(Slice(s, ij[1], ij[2])).ok
        /\ ~JsonLoads(s).ok}

\* C4: for a well-formed JSON object O wrapped in brace-free prose P and S,
\* the whole not being valid JSON, _parse_json returns what json.loads
\* returns for O.
C4_WrappedObjectRecovered ==
    pdone => \A ij \in WrappedSplits(raw) :
                parsed = Returned(JsonLoads(Slice(raw, ij[1], ij[2])).val)

\* C4's case: a non-empty object, holding a nested object, between two
\* non-empty stretches of prose, recovered
C4_Witness ==
    /\ pdone
    /\ \E ij \in WrappedSplits(raw) : ij[1] > 1 /\ ij[2] < Len(raw)
    /\ raw[1] = "x" /\ raw[Len(raw)] = "x"
    /\ parsed.exc = "none"
    /\ parsed.val.t = "obj"
    /\ \E j \in 1..Len(parsed.val.m) : parsed.val.m[j].v.t = "obj"

\* there is a '{' with a '}' somewhere after it
HasSpan(s) == \E i, j \in 1..Len(s) : i < j /\ s[i] = "{" /\ s[j] = "}"
\* from the first '{' to the last '}'
WidestSpan(s) ==
    Slice(s, Min({i \in 1..Len(s) : s[i] = "{"}),
             Max({j \in 1..Len(s) : s[j] = "}"}))

----------------------------------------------------------------------------
(* Claims about the code-fence extraction                                  *)

\* an opening marker with a closing fence somewhere after it
Fenced(s) ==
    \E i, j \in 1..Len(s) :
        OccursAt(s, Opening, i) /\ j >= i + Len(Opening) /\ OccursAt(s, Fence, j)

\* C8: a response holding the opening marker (three backticks and python)
\* followed later by a closing marker (three backticks) yields the
\* whitespace-trimmed text between the first such opening marker and the
\* first closing marker after it, markers excluded; any other response (no
\* fence, an unclosed one, another letter case) is returned unchanged.
C8_FenceExtraction ==
    fdone =>
        IF Fenced(response)
        THEN \E i, j \in 1..Len(response) :
                /\ OccursAt(response, Opening, i)
                /\ \A h \in 1..(i - 1) : ~OccursAt(response, Opening, h)
                /\ j >= i + Len(Opening)
                /\ OccursAt(response, Fence, j)
                /\ \A h \in (i + Len(Opening))..(j - 1) :
                        ~OccursAt(response, Fence, h)
                /\ extracted = Strip(Slice(response, i + Len(Opening), j - 1))
        ELSE extracted = response

\* C8's case: a fenced block whose interior spans lines and is followed by a
\* second closing fence; the trimmed interior comes back
C8_Witness ==
    /\ fdone
    /\ Fenced(response)
    /\ response = Opening \o <<"\n">> \o <<"x">> \o Fence \o Fence
    /\ extracted = <<"x">>

----------------------------------------------------------------------------
(* Claims about the runs of main.py                                        *)

Session == <<model_parameters, modeling_instructions, rhino_python_script>>

\* C1: when a remote completion call raises during Generate Parameters, Get
\* Rhino Code or Improve Code, the session triple after the aborted action
\* equals the triple before it, also when only the second of two calls fails.
C1_AbortLeavesSessionUntouched ==
    (run.out = "raised" /\ run.exc = "APIError") => Session = run.before

\* C6: when the extractor yields the empty mapping for Generate Parameters,
\* the error message is shown, the session triple is what it was before the
\* action, and no exception leaves the action or the rest of that run.
C6_MalformedResponseIsSoftFailure ==
    (run.trigger = "generate_parameters" /\ run.params = EmptyObj)
        => /\ "Failed to extract parameters" \in run.shown
           /\ Session = run.before
           /\ run.out = "ok"

\* C7: every save writes to a filename that no earlier save used, so no
\* saved script is ever overwritten, also within one clock second.
C7_SaveNeverOverwrites ==
    \A i \in 1..Len(run.writes) : ~run.writes[i].existed

\* C9: at the end of a run in which Get Rhino Code or Improve Code replaced
\* the session script, the most recently written file holds exactly the
\* current session script.
C9_ReplacedScriptIsSaved ==
    (/\ run.trigger \in {"get_rhino_code", "improve_code"}
     /\ rhino_python_script # run.before[3])
        => (run.latest # NoFile /\ run.latest.content = rhino_python_script)

\* C10: a run that finds the credential absent or empty halts there with an
\* error message: no assistant is constructed, no remote call is issued, no
\* session field is initialised or changed, and no file is written.
C10_NoCredentialHalts ==
    (run.trigger # "none" /\ run.key \in {NoKey, ""})
        => /\ run.out = "halted"
           /\ "API key not found" \in run.shown
           /\ ~run.constructed
           /\ run.calls = <<>>
           /\ run.writes = <<>>
           /\ files = {}
           /\ Session = <<Unset, UnsetText, UnsetText>>
           /\ Session = run.before

\* C10's case: a run has halted for want of the credential
C10_Witness ==
    /\ run.out = "halted"
    /\ run.key \in {NoKey, ""}
    /\ run.trigger = "rerun"

=============================================================================
